---- MODULE Spec2Model ----
(***************************************************************************)
(* Model of the virtual shell emulator (ConfigDaev/emulator.py): the       *)
(* VirtualFileSystem built from a zip archive's entry list and the         *)
(* VirtualShell command loop working on it.                                *)
(*                                                                         *)
(* A Python str is a sequence of one-character strings, so that split,     *)
(* strip, join, concatenation and sorted() are computed as Python computes *)
(* them.  The nested dict self.fs is a function from positions (sequences  *)
(* of names, the keys on the way down from the root dict) to the kind of   *)
(* value stored under the last key: a dict or None.                        *)
(***************************************************************************)
EXTENDS Integers, Sequences, FiniteSets, TLC

(***************************************************************************)
(* Bounds                                                                  *)
(***************************************************************************)
\* Lines the shell loop reads before the model stops reading further ones.
MaxHistory == 3
\* Direct calls a harness makes on one VirtualFileSystem (as main.py does).
MaxCalls == 3
\* VirtualShell objects created in one process.
MaxShells == 2

(***************************************************************************)
(* Python str primitives                                                   *)
(***************************************************************************)
\* The characters the model uses, in code point order (ASCII).
CodePoints ==
  << "\n", " ", "'", "-", ".", "/",
     "0", "1", "2", "3", "4", "5", "6", "7", "8", "9", ":", "<", ">",
     "A", "B", "C", "D", "E", "F", "G", "H", "I", "J", "K", "L", "M",
     "N", "O", "P", "Q", "R", "S", "T", "U", "V", "W", "X", "Y", "Z",
     "a", "b", "c", "d", "e", "f", "g", "h", "i", "j", "k", "l", "m",
     "n", "o", "p", "q", "r", "s", "t", "u", "v", "w", "x", "y", "z" >>

\* ord(c), up to the order-preserving renumbering of the characters used.
Ord(c) == CHOOSE i \in 1..Len(CodePoints) : CodePoints[i] = c

\* str.__lt__: lexicographic by code point, a proper prefix being smaller.
RECURSIVE StrLess(_, _)
StrLess(a, b) ==
  IF b = <<>> THEN FALSE
  ELSE IF a = <<>> THEN TRUE
  ELSE IF Head(a) = Head(b) THEN StrLess(Tail(a), Tail(b))
  ELSE Ord(Head(a)) < Ord(Head(b))

\* sorted(names) for a collection of distinct strings (dict keys).
RECURSIVE Sorted(_)
Sorted(S) ==
  IF S = {} THEN <<>>
  ELSE LET m == CHOOSE x \in S : \A y \in S \ {x} : StrLess(x, y)
       IN  <<m>> \o Sorted(S \ {m})

\* s.lstrip(chars) and s.rstrip(chars); chars is a set of characters.
RECURSIVE LStrip(_, _)
LStrip(s, chars) ==
  IF s # <<>> /\ Head(s) \in chars THEN LStrip(Tail(s), chars) ELSE s

RECURSIVE RStrip(_, _)
RStrip(s, chars) ==
  IF s # <<>> /\ s[Len(s)] \in chars
  THEN RStrip(SubSeq(s, 1, Len(s) - 1), chars)
  ELSE s

\* s.strip(chars)
Strip(s, chars) == RStrip(LStrip(s, chars), chars)

\* The whitespace characters str.strip() and str.split() act on.
Whitespace == {" ", "\n"}

\* s.split(sep) for a one-character sep: always at least one part.
RECURSIVE SplitFrom(_, _, _)
SplitFrom(s, sep, cur) ==
  IF s = <<>> THEN <<cur>>
  ELSE IF Head(s) = sep THEN <<cur>> \o SplitFrom(Tail(s), sep, <<>>)
  ELSE SplitFrom(Tail(s), sep, Append(cur, Head(s)))

Split(s, sep) == SplitFrom(s, sep, <<>>)

\* s.split(): runs of whitespace separate, no empty part is returned.
RECURSIVE SplitWsFrom(_, _)
SplitWsFrom(s, cur) ==
  IF s = <<>> THEN (IF cur = <<>> THEN <<>> ELSE <<cur>>)
  ELSE IF Head(s) \in Whitespace
       THEN (IF cur = <<>> THEN <<>> ELSE <<cur>>) \o SplitWsFrom(Tail(s), <<>>)
       ELSE SplitWsFrom(Tail(s), Append(cur, Head(s)))

SplitWs(s) == SplitWsFrom(s, <<>>)

\* sep.join(parts)
RECURSIVE Join(_, _)
Join(sep, parts) ==
  IF parts = <<>> THEN <<>>
  ELSE IF Len(parts) = 1 THEN parts[1]
  ELSE parts[1] \o sep \o Join(sep, Tail(parts))

\* s.splitlines(): the line boundaries are the "\n"; a final "\n" opens no
\* further line.
SplitLines(s) ==
  LET parts == Split(s, "\n")
  IN  IF parts[Len(parts)] = <<>> THEN SubSeq(parts, 1, Len(parts) - 1)
      ELSE parts

\* str(n) for an int n >= 0.
RECURSIVE Str(_)
Str(n) ==
  LET digit == <<CodePoints[Ord("0") + (n % 10)]>>
  IN  IF n < 10 THEN digit ELSE Str(n \div 10) \o digit

\* bytes.decode('utf-8') of one archive member.  A byte below 0x80 is the
\* character of that code; the model's archives hold only "\n" (10) and
\* lower-case letters (97..122) besides the byte 0xFF, which no UTF-8 text
\* contains and which makes decode raise.
Chr(b) ==
  IF b = 10 THEN "\n" ELSE CodePoints[Ord("a") + (b - 97)]

Decode(bytes) ==
  IF \E i \in 1..Len(bytes) : bytes[i] >= 128
  THEN [raised |-> "UnicodeDecodeError", text |-> <<>>]
  ELSE [raised |-> "none", text |-> [i \in 1..Len(bytes) |-> Chr(bytes[i])]]

(***************************************************************************)
(* The nested dict self.fs                                                 *)
(***************************************************************************)
\* What a key of a dict of the tree holds: a nested dict or None.
DictNode == "dict"
NoneNode == "None"

\* self.fs = {} (emulator.py:11): no key at any position.
EmptyFs == [p \in {} |-> DictNode]

\* A Python reference into the tree: the dict at position `at`, or None.
Ref(p) == [isNone |-> FALSE, at |-> p]
NoneRef == [isNone |-> TRUE, at |-> <<>>]

IsPrefix(p, q) == Len(p) <= Len(q) /\ SubSeq(q, 1, Len(p)) = p

\* d.keys() for the dict at position d.
Keys(fs, d) ==
  { q[Len(q)] : q \in {r \in DOMAIN fs : Len(r) = Len(d) + 1 /\ IsPrefix(d, r)} }

\* d[name], for a key that is present: the nested dict, or None.
GetItem(fs, d, name) ==
  LET p == Append(d, name)
  IN  IF fs[p] = DictNode THEN Ref(p) ELSE NoneRef

\* d[name] = value: the key's old value, with everything below it, is dropped.
SetItem(fs, d, name, value) ==
  LET p    == Append(d, name)
      keep == {q \in DOMAIN fs : ~IsPrefix(p, q)} \cup {p}
  IN  [q \in keep |-> IF q = p THEN value ELSE fs[q]]

\* table[key] = value for the dict files_content.
SetKey(table, key, value) ==
  [k \in DOMAIN table \cup {key} |-> IF k = key THEN value ELSE table[k]]

(***************************************************************************)
(* VirtualFileSystem.load_zip                                              *)
(***************************************************************************)
\* for part in parts[:-1]: d = d.setdefault(part, {})      (emulator.py:21-22)
\* d is a reference; setdefault on None raises AttributeError, and on a dict
\* returns the value already under the key (None for a file) or stores {}.
RECURSIVE SetDefaultWalk(_, _, _)
SetDefaultWalk(fs, d, parts) ==
  IF parts = <<>> THEN [fs |-> fs, d |-> d, raised |-> "none"]
  ELSE IF d.isNone THEN [fs |-> fs, d |-> d, raised |-> "AttributeError"]
  ELSE LET part == Head(parts)
           p    == Append(d.at, part)
       IN  IF p \in DOMAIN fs
           THEN SetDefaultWalk(fs, GetItem(fs, d.at, part), Tail(parts))
           ELSE SetDefaultWalk(SetItem(fs, d.at, part, DictNode), Ref(p), Tail(parts))

\* The body of the loop over z.namelist() for one entry (emulator.py:19-25).
\* st is [fs, files_content, raised]; zread is z.read, by member name.
LoadEntry(st, file, zread) ==
  LET parts == Split(file, "/")
      last  == parts[Len(parts)]
      w     == SetDefaultWalk(st.fs, Ref(<<>>), SubSeq(parts, 1, Len(parts) - 1))
  IN  IF w.raised # "none"
      THEN [fs |-> w.fs, files_content |-> st.files_content, raised |-> w.raised]
      ELSE IF last = <<>>
      THEN [fs |-> w.fs, files_content |-> st.files_content, raised |-> "none"]
      ELSE IF w.d.isNone
      THEN [fs |-> w.fs, files_content |-> st.files_content, raised |-> "TypeError"]
      ELSE LET fs1 == SetItem(w.fs, w.d.at, last, NoneNode)
               dec == Decode(zread[file])
           IN  IF dec.raised # "none"
               THEN [fs |-> fs1, files_content |-> st.files_content,
                     raised |-> dec.raised]
               ELSE [fs |-> fs1,
                     files_content |-> SetKey(st.files_content, file, dec.text),
                     raised |-> "none"]

\* for file in z.namelist(): ...   The first exception ends the loop.
RECURSIVE LoadLoop(_, _, _)
LoadLoop(st, names, zread) ==
  IF names = <<>> \/ st.raised # "none" THEN st
  ELSE LoadLoop(LoadEntry(st, Head(names), zread), Tail(names), zread)

\* VirtualFileSystem.load_zip on a fresh object (fs = {}, files_content = {}).
load_zip(archive) ==
  LoadLoop([fs |-> EmptyFs, files_content |-> EmptyFs, raised |-> "none"],
           archive.names, archive.data)

(***************************************************************************)
(* Archives the model loads                                                *)
(***************************************************************************)
\* Entry names.
n_a == <<"a">>
n_b == <<"b">>
n_d == <<"d">>
n_dSlash == <<"d", "/">>
n_dc == <<"d", "/", "c">>
n_df == <<"d", "/", "f">>
n_def == <<"d", "/", "e", "/", "f">>
n_deg == <<"d", "e", "/", "g">>

\* Member bytes: "h\ni", "x\n", "c" and a byte that is no UTF-8.
TwoLines == <<104, 10, 105>>
OneLine == <<120, 10>>
NoNewline == <<99>>
NotUtf8 == <<255>>

Archive(names, bytes) ==
  [names |-> names,
   data  |-> [n \in {names[i] : i \in 1..Len(names)} |-> bytes]]

\* b, a, d/, d/e/f, d/c: files and a folder at the root, a folder two deep.
ArchTree ==
  [names |-> <<n_b, n_a, n_dSlash, n_def, n_dc>>,
   data  |-> (n_b :> OneLine) @@ (n_a :> TwoLines) @@ (n_dSlash :> <<>>)
             @@ (n_def :> TwoLines) @@ (n_dc :> NoNewline)]
\* d/e/f and de/g: the folder d/e beside a root folder named "de".
ArchAlias == Archive(<<n_def, n_deg>>, TwoLines)
\* d/f, then d: a name used as a directory prefix and then as a file entry.
ArchShadow == Archive(<<n_df, n_d>>, OneLine)
\* d, then d/f and d, then d/e/f: the file entry comes first.
ArchFileFirst == Archive(<<n_d, n_df>>, OneLine)
ArchFileFirstDeep == Archive(<<n_d, n_def>>, OneLine)
\* A member that is not text.
ArchBinary == Archive(<<n_a>>, NotUtf8)

Archives ==
  {ArchTree, ArchAlias, ArchShadow, ArchFileFirst, ArchFileFirstDeep, ArchBinary}

(***************************************************************************)
(* VirtualFileSystem methods.  Each returns a record: raised is "none" or  *)
(* the class of the exception raised, msg is str(exception).               *)
(***************************************************************************)
Quote == <<"'">>
\* "'NoneType' object "
NoneTypeObject ==
  <<"'", "N", "o", "n", "e", "T", "y", "p", "e", "'", " ",
    "o", "b", "j", "e", "c", "t", " ">>
\* "'NoneType' object has no attribute 'keys'"
MsgNoKeys ==
  NoneTypeObject \o
  <<"h", "a", "s", " ", "n", "o", " ", "a", "t", "t", "r", "i", "b", "u", "t", "e",
    " ", "'", "k", "e", "y", "s", "'">>
\* "'NoneType' object is not subscriptable"
MsgNotSubscriptable ==
  NoneTypeObject \o
  <<"i", "s", " ", "n", "o", "t", " ", "s", "u", "b", "s", "c", "r", "i", "p", "t",
    "a", "b", "l", "e">>
\* "No such directory: "
MsgNoSuchDirectory ==
  <<"N", "o", " ", "s", "u", "c", "h", " ", "d", "i", "r", "e", "c", "t", "o", "r", "y",
    ":", " ">>
\* "No such file: "
MsgNoSuchFile ==
  <<"N", "o", " ", "s", "u", "c", "h", " ", "f", "i", "l", "e", ":", " ">>

Slash == <<"/">>
DotDot == <<".", ".">>

\* for part in ...: if part: dirs = dirs[part]             (emulator.py:30-32)
\* Indexing None raises TypeError, a missing key raises KeyError(part).
RECURSIVE Resolve(_, _, _)
Resolve(fs, dirs, parts) ==
  IF parts = <<>> THEN [raised |-> "none", msg |-> <<>>, dirs |-> dirs]
  ELSE LET part == Head(parts)
       IN  IF part = <<>> THEN Resolve(fs, dirs, Tail(parts))
           ELSE IF dirs.isNone
           THEN [raised |-> "TypeError", msg |-> MsgNotSubscriptable, dirs |-> dirs]
           ELSE IF Append(dirs.at, part) \notin DOMAIN fs
           THEN [raised |-> "KeyError", msg |-> Quote \o part \o Quote, dirs |-> dirs]
           ELSE Resolve(fs, GetItem(fs, dirs.at, part), Tail(parts))

\* A list_dir that sorts the names without separating folders from files.
FoldersThenFiles_Unpartitioned(fs, d) == Sorted(Keys(fs, d))

\* folders + files of a dict of the tree                   (emulator.py:34-36)
FoldersThenFiles(fs, d) ==
  Sorted({name \in Keys(fs, d) : fs[Append(d, name)] = DictNode})
  \o Sorted({name \in Keys(fs, d) : fs[Append(d, name)] = NoneNode})

\* VirtualFileSystem.list_dir
list_dir(fs, dir) ==
  LET r == Resolve(fs, Ref(<<>>), Split(Strip(dir, {"/"}), "/"))
  IN  IF r.raised # "none"
      THEN [raised |-> r.raised, msg |-> r.msg, ret |-> <<>>]
      ELSE IF r.dirs.isNone
      THEN [raised |-> "AttributeError", msg |-> MsgNoKeys, ret |-> <<>>]
      ELSE [raised |-> "none", msg |-> <<>>, ret |-> FoldersThenFiles(fs, r.dirs.at)]

\* path in self.list_dir()
InList(x, list) == \E i \in 1..Len(list) : list[i] = x

\* A change_dir("..") without the `if not self.current_dir` clamp.
ParentDir_NoClamp(dir) ==
  LET parts == Split(dir, "/")
  IN  Join(Slash, SubSeq(parts, 1, Len(parts) - 1))

\* The new current_dir of change_dir("..")                 (emulator.py:41-43)
ParentDir(dir) ==
  LET parts  == Split(dir, "/")
      joined == Join(Slash, SubSeq(parts, 1, Len(parts) - 1))
  IN  IF joined = <<>> THEN Slash ELSE joined

\* A change_dir that strips the joined path: (dir + "/" + path).strip("/").
ChildDir_StripsAll(dir, path) == Strip(dir \o Slash \o path, {"/"})

\* The new current_dir of a change_dir into a listed name  (emulator.py:45)
ChildDir(dir, path) == dir \o Strip(Slash \o path, {"/"})

\* VirtualFileSystem.change_dir; dir is the current_dir it leaves.
change_dir(fs, dir, path) ==
  IF path = DotDot
  THEN [raised |-> "none", msg |-> <<>>, dir |-> ParentDir(dir)]
  ELSE LET l == list_dir(fs, dir)
       IN  IF l.raised # "none"
           THEN [raised |-> l.raised, msg |-> l.msg, dir |-> dir]
           ELSE IF InList(path, l.ret)
           THEN [raised |-> "none", msg |-> <<>>, dir |-> ChildDir(dir, path)]
           ELSE [raised |-> "FileNotFoundError",
                 msg |-> MsgNoSuchDirectory \o path, dir |-> dir]

\* VirtualFileSystem.current_path
current_path(dir) == dir

\* full_path of read_file                                  (emulator.py:55)
FullPath(dir, file_path) ==
  Strip(Strip(dir, {"/"}) \o Slash \o file_path, {"/"})

\* VirtualFileSystem.read_file
read_file(table, dir, file_path) ==
  LET full_path == FullPath(dir, file_path)
  IN  IF full_path \in DOMAIN table
      THEN [raised |-> "none", msg |-> <<>>, ret |-> SplitLines(table[full_path])]
      ELSE [raised |-> "FileNotFoundError",
            msg |-> MsgNoSuchFile \o file_path, ret |-> <<>>]

(***************************************************************************)
(* VirtualShell                                                            *)
(***************************************************************************)
Space == <<" ">>
Newline == <<"\n">>
c_ls == <<"l", "s">>
c_pwd == <<"p", "w", "d">>
c_cd == <<"c", "d">>
c_history == <<"h", "i", "s", "t", "o", "r", "y">>
c_date == <<"d", "a", "t", "e">>
c_exit == <<"e", "x", "i", "t">>
\* "Usage: cd <directory>"
MsgUsage ==
  <<"U", "s", "a", "g", "e", ":", " ", "c", "d", " ",
    "<", "d", "i", "r", "e", "c", "t", "o", "r", "y", ">">>
\* "Command not found: "
MsgCommandNotFound ==
  <<"C", "o", "m", "m", "a", "n", "d", " ", "n", "o", "t", " ",
    "f", "o", "u", "n", "d", ":", " ">>
\* "Error: "
MsgErrorPrefix == <<"E", "r", "r", "o", "r", ":", " ">>

\* A print(a, b, c, sep=""): the arguments with nothing between them.
Print3_NoSeparator(a, b, c) == a \o b \o c

\* print(a, b, c): the arguments joined by the separator " ".
Print3(a, b, c) == Join(Space, <<a, b, c>>)

\* A handle_history that prints the loop index i instead of i + 1.
handle_history_ZeroBased(history) ==
  [i \in 1..Len(history) |-> Print3(Str(i - 1), Space, history[i])]

\* handle_history: one print per recorded command           (emulator.py:103-104)
handle_history(history) ==
  [i \in 1..Len(history) |-> Print3(Str((i - 1) + 1), Space, history[i])]

\* strftime("%a %b %d %H:%M:%S %Y") of an instant [wday, mon, d, H, M, S, Y].
DayAbbr ==
  << <<"M", "o", "n">>, <<"T", "u", "e">>, <<"W", "e", "d">>, <<"T", "h", "u">>,
     <<"F", "r", "i">>, <<"S", "a", "t">>, <<"S", "u", "n">> >>
MonthAbbr ==
  << <<"J", "a", "n">>, <<"F", "e", "b">>, <<"M", "a", "r">>, <<"A", "p", "r">>,
     <<"M", "a", "y">>, <<"J", "u", "n">>, <<"J", "u", "l">>, <<"A", "u", "g">>,
     <<"S", "e", "p">>, <<"O", "c", "t">>, <<"N", "o", "v">>, <<"D", "e", "c">> >>
TwoDigits(n) == IF n < 10 THEN <<"0">> \o Str(n) ELSE Str(n)
Strftime(now) ==
  Join(Space,
       << DayAbbr[now.wday + 1], MonthAbbr[now.mon], TwoDigits(now.d),
          Join(<<":">>, <<TwoDigits(now.H), TwoDigits(now.M), TwoDigits(now.S)>>),
          Str(now.Y) >>)

\* What datetime.now() may return while the model runs.
Instants ==
  { [wday |-> 2, mon |-> 6, d |-> 12, H |-> 14, M |-> 5, S |-> 9, Y |-> 2024],
    [wday |-> 4, mon |-> 11, d |-> 6, H |-> 6, M |-> 0, S |-> 30, Y |-> 2026] }

\* The body of the try statement of process_command       (emulator.py:81-95)
\* for a line with at least one token.  stdout lists the text of each print
\* call; dir is the current_dir the body leaves; called lists the
\* VirtualFileSystem methods the body called.
Dispatch(fs, dir, history, parts, now) ==
  LET cmd == parts[1]
  IN  IF cmd = c_ls
      THEN LET l == list_dir(fs, dir)
           IN  [raised |-> l.raised, msg |-> l.msg, dir |-> dir,
                stdout |-> IF l.raised = "none" THEN <<Join(Newline, l.ret)>> ELSE <<>>,
                called |-> <<"list_dir">>]
      ELSE IF cmd = c_pwd
      THEN [raised |-> "none", msg |-> <<>>, dir |-> dir,
            stdout |-> <<current_path(dir)>>, called |-> <<"current_path">>]
      ELSE IF cmd = c_cd
      THEN IF Len(parts) > 1
           THEN LET c == change_dir(fs, dir, parts[2])
                IN  [raised |-> c.raised, msg |-> c.msg, dir |-> c.dir,
                     stdout |-> <<>>, called |-> <<"change_dir">>]
           ELSE [raised |-> "none", msg |-> <<>>, dir |-> dir,
                 stdout |-> <<MsgUsage>>, called |-> <<>>]
      ELSE IF cmd = c_history
      THEN [raised |-> "none", msg |-> <<>>, dir |-> dir,
            stdout |-> handle_history(history), called |-> <<>>]
      ELSE IF cmd = c_date
      THEN [raised |-> "none", msg |-> <<>>, dir |-> dir,
            stdout |-> <<Strftime(now)>>, called |-> <<>>]
      ELSE [raised |-> "none", msg |-> <<>>, dir |-> dir,
            stdout |-> <<MsgCommandNotFound \o cmd>>, called |-> <<>>]

\* The classes `except Exception` catches among those the model raises.
ExceptionSubclasses ==
  {"FileNotFoundError", "KeyError", "AttributeError", "TypeError"}

\* A process_command without the `except Exception` clause.
Except_NoCatchAll(body) ==
  IF body.raised = "none"
  THEN [raised |-> "none", caught |-> "none", stdout |-> body.stdout]
  ELSE IF body.raised = "FileNotFoundError"
  THEN [raised |-> "none", caught |-> body.raised,
        stdout |-> Append(body.stdout, body.msg)]
  ELSE [raised |-> body.raised, caught |-> "none", stdout |-> body.stdout]

\* The except clauses of process_command                  (emulator.py:96-99)
\* applied to the outcome of the try body: raised is what propagates to the
\* caller, caught is the class of the exception a clause handled.
Except(body) ==
  IF body.raised = "none"
  THEN [raised |-> "none", caught |-> "none", stdout |-> body.stdout]
  ELSE IF body.raised = "FileNotFoundError"
  THEN [raised |-> "none", caught |-> body.raised,
        stdout |-> Append(body.stdout, body.msg)]
  ELSE IF body.raised \in ExceptionSubclasses
  THEN [raised |-> "none", caught |-> body.raised,
        stdout |-> Append(body.stdout, MsgErrorPrefix \o body.msg)]
  ELSE [raised |-> body.raised, caught |-> "none", stdout |-> body.stdout]

\* A process_command that goes back to the root after a caught exception.
process_command_ResetOnError(fs, dir, history, command, now) ==
  LET parts    == SplitWs(command)
      appended == Append(history, command)
  IN  IF parts = <<>>
      THEN [raised |-> "none", caught |-> "none", stdout |-> <<>>, dir |-> dir,
            history |-> appended, called |-> <<>>]
      ELSE LET body == Dispatch(fs, dir, appended, parts, now)
               e    == Except(body)
           IN  [raised |-> e.raised, caught |-> e.caught, stdout |-> e.stdout,
                dir |-> IF e.caught = "none" THEN body.dir ELSE Slash,
                history |-> appended, called |-> body.called]

\* VirtualShell.process_command.  history is the global command_history
\* after the call.
process_command(fs, dir, history, command, now) ==
  LET parts    == SplitWs(command)
      appended == Append(history, command)
  IN  IF parts = <<>>
      THEN [raised |-> "none", caught |-> "none", stdout |-> <<>>, dir |-> dir,
            history |-> appended, called |-> <<>>]
      ELSE LET body == Dispatch(fs, dir, appended, parts, now)
               e    == Except(body)
           IN  [raised |-> e.raised, caught |-> e.caught, stdout |-> e.stdout,
                dir |-> body.dir, history |-> appended, called |-> body.called]

\* A VirtualShell.__init__ that gives each object a history of its own.
VirtualShell_init_OwnHistory(history) == <<>>

\* command_history after VirtualShell.__init__: the constructor stores vfs
\* and leaves the module-level list as it is           (emulator.py:5, 63-64)
VirtualShell_init(history) == history

\* A loop test that compares the raw line: command == "exit".
IsExit_NoStrip(command) == command = c_exit

\* The test of the loop of VirtualShell.start              (emulator.py:69)
IsExit(command) == Strip(command, Whitespace) = c_exit

(***************************************************************************)
(* The state machine                                                       *)
(***************************************************************************)
VARIABLES
  pc,               \* "load_failed": the constructor raised; "api": a harness
                    \* calls the VirtualFileSystem methods (as main.py does);
                    \* "running" / "terminated": the loop of VirtualShell.start;
                    \* "crashed": an exception left process_command
  archive,          \* the zip archive at zip_file_path
  fs,               \* VirtualFileSystem.fs
  files_content,    \* VirtualFileSystem.files_content
  current_dir,      \* VirtualFileSystem.current_dir
  command_history,  \* the module-level list command_history
  stdout,           \* the text of each print call of the last command
  last,             \* the last call made and its outcome
  calls,            \* the calls the harness made so far, with their outcomes
  shell             \* the VirtualShell object in use: id counts the objects
                    \* created so far (0: none), inherited is the length
                    \* command_history had when this one was created

vars ==
  <<pc, archive, fs, files_content, current_dir, command_history, stdout, last, calls,
    shell>>

\* A call and its outcome: before is current_dir when the call was made.
Call(op, arg, before, raised, caught, msg, ret, called) ==
  [op |-> op, arg |-> arg, before |-> before, raised |-> raised, caught |-> caught,
   msg |-> msg, ret |-> ret, called |-> called]

\* Input lines the user types.
l_ls == c_ls
l_pwd == c_pwd
l_cd_d == <<"c", "d", " ", "d">>
l_cd_e == <<"c", "d", " ", "e">>
l_cd_a == <<"c", "d", " ", "a">>
l_cd_up == <<"c", "d", " ", ".", ".">>
l_cd == c_cd
l_cd_d_x == <<"c", "d", " ", "d", " ", "x">>
l_history == c_history
l_date == c_date
l_EXIT == <<"E", "X", "I", "T">>
l_exit_now == <<"e", "x", "i", "t", " ", "n", "o", "w">>
l_blank == <<" ">>
l_exit == c_exit
l_exit_padded == <<" ", "e", "x", "i", "t", " ", "\n">>

Lines ==
  { l_ls, l_pwd, l_cd_d, l_cd_e, l_cd_a, l_cd_up, l_cd, l_cd_d_x, l_history, l_date,
    l_EXIT, l_exit_now, l_blank, l_exit, l_exit_padded }

\* Arguments the harness passes to change_dir and to read_file.
n_e == <<"e">>
n_c == <<"c">>
n_f == <<"f">>
n_z == <<"z">>
DirArgs == {n_d, n_e, n_a, n_z, DotDot}
FileArgs == {n_a, n_c, n_f, n_z, n_def}

\* VirtualFileSystem.__init__ on one of the archives, then either the
\* harness or VirtualShell.start takes over.
Init ==
  \E a \in Archives, driver \in {"api", "running"} :
    LET st == load_zip(a)
    IN  /\ archive = a
        /\ fs = st.fs
        /\ files_content = st.files_content
        /\ current_dir = Slash
        /\ pc = IF st.raised = "none" THEN driver ELSE "load_failed"
        /\ command_history = <<>>
        /\ stdout = <<>>
        /\ last = Call("load_zip", <<>>, Slash, st.raised, "none", <<>>, <<>>, <<>>)
        /\ calls = <<>>
        /\ shell = IF st.raised = "none" /\ driver = "running"
                   THEN [id |-> 1, inherited |-> 0]
                   ELSE [id |-> 0, inherited |-> 0]

\* The harness records a call and its outcome.
Made(c) ==
  /\ last' = c
  /\ calls' = Append(calls, c)
  /\ UNCHANGED <<pc, archive, fs, files_content, command_history, stdout, shell>>

ApiReady == pc = "api" /\ Len(calls) < MaxCalls

\* vfs.change_dir(path)
ApiChangeDir(path) ==
  /\ ApiReady
  /\ LET r == change_dir(fs, current_dir, path)
     IN  /\ current_dir' = r.dir
         /\ Made(Call("change_dir", path, current_dir, r.raised, "none", r.msg, <<>>,
                      <<>>))

\* vfs.list_dir()
ApiListDir ==
  /\ ApiReady
  /\ LET r == list_dir(fs, current_dir)
     IN  /\ UNCHANGED current_dir
         /\ Made(Call("list_dir", <<>>, current_dir, r.raised, "none", r.msg, r.ret,
                      <<>>))

\* vfs.current_path()
ApiCurrentPath ==
  /\ ApiReady
  /\ UNCHANGED current_dir
  /\ Made(Call("current_path", <<>>, current_dir, "none", "none", <<>>,
               <<current_path(current_dir)>>, <<>>))

\* vfs.read_file(file_path)
ApiReadFile(file_path) ==
  /\ ApiReady
  /\ LET r == read_file(files_content, current_dir, file_path)
     IN  /\ UNCHANGED current_dir
         /\ Made(Call("read_file", file_path, current_dir, r.raised, "none", r.msg,
                      r.ret, <<>>))

\* One turn of the loop of VirtualShell.start that reads an exit line.
StartExit(command) ==
  /\ pc = "running"
  /\ IsExit(command)
  /\ pc' = "terminated"
  /\ last' = Call("exit", command, current_dir, "none", "none", <<>>, <<>>, <<>>)
  /\ stdout' = <<>>
  /\ UNCHANGED <<archive, fs, files_content, current_dir, command_history, calls,
                 shell>>

\* One turn of the loop of VirtualShell.start that reads any other line and
\* passes it to process_command.
StartProcess(command, now) ==
  /\ pc = "running"
  /\ Len(command_history) < MaxHistory
  /\ ~IsExit(command)
  /\ LET r == process_command(fs, current_dir, command_history, command, now)
     IN  /\ pc' = IF r.raised = "none" THEN "running" ELSE "crashed"
         /\ current_dir' = r.dir
         /\ command_history' = r.history
         /\ stdout' = r.stdout
         /\ last' = Call("process_command", command, current_dir, r.raised, r.caught,
                         <<>>, <<>>, r.called)
  /\ UNCHANGED <<archive, fs, files_content, calls, shell>>

\* A further VirtualShell(vfs) on the same file system takes over the input,
\* as one test of main.py after another does within one process.
NewShell ==
  /\ pc \in {"running", "terminated"}
  /\ shell.id < MaxShells
  /\ shell' = [id |-> shell.id + 1, inherited |-> Len(command_history)]
  /\ command_history' = VirtualShell_init(command_history)
  /\ pc' = "running"
  /\ stdout' = <<>>
  /\ last' = Call("VirtualShell", <<>>, current_dir, "none", "none", <<>>, <<>>, <<>>)
  /\ UNCHANGED <<archive, fs, files_content, current_dir, calls>>

\* datetime.now() is read by handle_date alone: the clock is an input of the
\* date command and of no other.
ReadsClock(command) ==
  LET parts == SplitWs(command) IN parts # <<>> /\ parts[1] = c_date
Clock(command) ==
  IF ReadsClock(command) THEN Instants ELSE {CHOOSE now \in Instants : TRUE}

Next ==
  \/ \E path \in DirArgs : ApiChangeDir(path)
  \/ ApiListDir
  \/ ApiCurrentPath
  \/ \E file_path \in FileArgs : ApiReadFile(file_path)
  \/ \E command \in Lines : StartExit(command)
  \/ \E command \in Lines : \E now \in Clock(command) : StartProcess(command, now)

\* startConsole, or a harness on one VirtualFileSystem: one shell at most.
Spec == Init /\ [][Next]_vars

\* A process that creates one VirtualShell after another, as the tests of
\* main.py do; each reads some of these lines.
ShellLines == {l_ls, l_pwd, l_cd_d, l_history, l_exit_padded}

NextShells ==
  \/ \E command \in ShellLines : StartExit(command)
  \/ \E command \in ShellLines : \E now \in Clock(command) : StartProcess(command, now)
  \/ NewShell

InitShells == Init /\ pc # "api"

SpecShells == InitShells /\ [][NextShells]_vars

(***************************************************************************)
(* Vocabulary of the properties                                            *)
(***************************************************************************)
NonEmpty(x) == x # <<>>
\* The position a path string names: its non-empty segments.
Segments(dir) == SelectSeq(Split(dir, "/"), NonEmpty)
\* The path string "/s1/.../sn" of a position.
PathOf(position) == Slash \o Join(Slash, position)
\* The node at a position: the root is a directory.
IsNode(position) == position = <<>> \/ position \in DOMAIN fs
IsDirectory(position) ==
  position = <<>> \/ (position \in DOMAIN fs /\ fs[position] = DictNode)
IsFile(position) == position \in DOMAIN fs /\ fs[position] = NoneNode
\* The arguments of a sequence of calls.
ArgsOf(cs) == [i \in 1..Len(cs) |-> cs[i].arg]
\* The harness has only walked down: nothing but change_dir calls.
OnlyChangeDir(cs) == \A i \in 1..Len(cs) : cs[i].op = "change_dir"
Loaded == pc # "load_failed"
IsSuffix(p, q) == Len(p) <= Len(q) /\ SubSeq(q, Len(q) - Len(p) + 1, Len(q)) = p

(***************************************************************************)
(* C1.  For every directory path s1/.../sn of the archive, the calls       *)
(* change_dir(s1), ..., change_dir(sn) made from the root all succeed and  *)
(* leave current_path() equal to "/s1/.../sn".                             *)
(* Violated: change_dir("d"), change_dir("e") leave "/de".                 *)
(***************************************************************************)
C1_WalkReachesPath ==
  ( /\ pc = "api"
    /\ calls # <<>>
    /\ OnlyChangeDir(calls)
    /\ IsDirectory(ArgsOf(calls)) )
  => /\ \A i \in 1..Len(calls) : calls[i].raised = "none"
     /\ current_path(current_dir) = PathOf(ArgsOf(calls))

(***************************************************************************)
(* C2.  In every reachable state, change_dir(name) with a name that is not *)
(* ".." and is not in the listing of the current directory raises          *)
(* FileNotFoundError, and no other class, and leaves current_dir as it     *)
(* was.                                                                    *)
(* Violated: once current_dir is "/de" or names a file, list_dir raises    *)
(* KeyError or AttributeError inside change_dir.                           *)
(***************************************************************************)
\* The name is listed: the listing exists and holds it.
Listed(name, dir) ==
  LET l == list_dir(fs, dir) IN l.raised = "none" /\ InList(name, l.ret)

C2_MissingRaisesNotFound ==
  ( /\ last.op = "change_dir"
    /\ last.arg # DotDot
    /\ ~Listed(last.arg, last.before) )
  => /\ last.raised = "FileNotFoundError"
     /\ current_dir = last.before

(***************************************************************************)
(* C3.  After any sequence of shell commands or change_dir calls the       *)
(* current directory path, walked segment by segment from the root, names  *)
(* a node of the tree.                                                     *)
(* Violated: "/de" names no node of the tree b, a, d/, d/e/f, d/c.         *)
(***************************************************************************)
C3_CurrentDirResolves == Loaded => IsNode(Segments(current_dir))

(***************************************************************************)
(* C4.  list_dir() returns exactly the names of the children of the        *)
(* current directory, each once: the subdirectory names in ascending       *)
(* order, then the file names in ascending order; no file name precedes a  *)
(* subdirectory name.                                                      *)
(***************************************************************************)
\* The names stored under a position of the tree.
ChildrenOf(position) ==
  { q[Len(q)] : q \in {r \in DOMAIN fs : SubSeq(r, 1, Len(r) - 1) = position} }

FoldersFirstAscending(ret, position) ==
  LET isFolder(i) == IsDirectory(Append(position, ret[i]))
  IN  /\ {ret[i] : i \in 1..Len(ret)} = ChildrenOf(position)
      /\ Len(ret) = Cardinality(ChildrenOf(position))
      /\ \A i, j \in 1..Len(ret) :
           i < j =>
             /\ isFolder(j) => isFolder(i)
             /\ (isFolder(i) <=> isFolder(j)) => StrLess(ret[i], ret[j])

C4_ListingFoldersThenFiles ==
  (last.op = "list_dir" /\ last.raised = "none")
  => FoldersFirstAscending(last.ret, Segments(last.before))

\* Reached: the root of b, a, d/, d/e/f, d/c listed as d, a, b.
C4_Witness ==
  /\ last.op = "list_dir"
  /\ last.raised = "none"
  /\ last.before = Slash
  /\ last.ret = <<n_d, n_a, n_b>>

(***************************************************************************)
(* C5.  change_dir("..") with current_dir "/" raises nothing and leaves    *)
(* current_dir "/", however often it is repeated, called directly or by    *)
(* the shell's cd command.                                                 *)
(***************************************************************************)
IsCdUp(call) ==
  \/ call.op = "change_dir" /\ call.arg = DotDot
  \/ /\ call.op = "process_command"
     /\ Len(SplitWs(call.arg)) > 1
     /\ SplitWs(call.arg)[1] = c_cd
     /\ SplitWs(call.arg)[2] = DotDot

C5_RootIsFloor ==
  (IsCdUp(last) /\ last.before = Slash)
  => /\ last.raised = "none"
     /\ last.caught = "none"
     /\ current_dir = Slash

\* Reached: change_dir("..") three times in a row from the root.
C5_Witness ==
  /\ Len(calls) = 3
  /\ \A i \in 1..3 : IsCdUp(calls[i]) /\ calls[i].before = Slash
  /\ current_dir = Slash

(***************************************************************************)
(* C6.  History is ordered and append-only: a history command entered as   *)
(* line cn prints exactly the lines c1..cn in the order they were entered, *)
(* line ci carrying the index i, the history command itself last; a later  *)
(* command never removes, reorders or alters an earlier entry.             *)
(***************************************************************************)
FirstToken(line) ==
  IF SplitWs(line) = <<>> THEN <<>> ELSE SplitWs(line)[1]

\* A printed line made of the decimal index, spaces, and the command.
LineCarries(line, i, command) ==
  /\ IsPrefix(Str(i), line)
  /\ IsSuffix(command, line)
  /\ Len(line) > Len(Str(i)) + Len(command)
  /\ \A k \in (Len(Str(i)) + 1)..(Len(line) - Len(command)) : line[k] = " "

HistoryListsAll ==
  (last.op = "process_command" /\ FirstToken(last.arg) = c_history)
  => /\ Len(stdout) = Len(command_history)
     /\ \A i \in 1..Len(stdout) : LineCarries(stdout[i], i, command_history[i])
     /\ command_history[Len(command_history)] = last.arg

\* A step of the loop that processes a line appends that line and changes
\* nothing else of the history; every other step leaves the history alone.
AppendOnly ==
  IF pc = "running" /\ pc' # "terminated"
  THEN command_history' = Append(command_history, last'.arg)
  ELSE command_history' = command_history

C6_HistoryOrderedAppendOnly == [] HistoryListsAll /\ [][AppendOnly]_vars

\* Reached: ls, pwd, history printed as three lines.
C6_Witness ==
  /\ command_history = <<l_ls, l_pwd, l_history>>
  /\ last.op = "process_command"
  /\ last.arg = l_history
  /\ Len(stdout) = 3

(***************************************************************************)
(* C7.  No command's failure ends the shell: for every line other than     *)
(* exit process_command returns without an exception and the shell stays   *)
(* running; a FileNotFoundError of the file system prints its message, any *)
(* other exception prints its message after "Error: ".                     *)
(***************************************************************************)
\* The outcome of the VirtualFileSystem call the line leads to, made in the
\* directory the line was entered in.
FailureOf(line, dir) ==
  LET parts == SplitWs(line)
  IN  IF FirstToken(line) = c_ls THEN list_dir(fs, dir)
      ELSE IF FirstToken(line) = c_cd /\ Len(parts) > 1
      THEN change_dir(fs, dir, parts[2])
      ELSE [raised |-> "none", msg |-> <<>>]

C7_NoCommandIsFatal ==
  last.op = "process_command"
  => /\ last.raised = "none"
     /\ pc = "running"
     /\ LET f == FailureOf(last.arg, last.before)
        IN  /\ f.raised = "FileNotFoundError" => stdout = <<f.msg>>
            /\ f.raised \notin {"none", "FileNotFoundError"}
               => stdout = <<MsgErrorPrefix \o f.msg>>

\* Reached: ls after cd d, cd e fails with KeyError and the loop goes on.
C7_Witness ==
  /\ pc = "running"
  /\ last.op = "process_command"
  /\ last.arg = l_ls
  /\ last.caught = "KeyError"
  /\ stdout = <<MsgErrorPrefix \o <<"'", "d", "e", "'">> >>

(***************************************************************************)
(* C8.  The shell goes from running to terminated exactly when the line    *)
(* read, with the surrounding whitespace removed, is "exit" (case-         *)
(* sensitive); that line is neither appended to the history nor            *)
(* dispatched; terminated is absorbing; every other line ("EXIT",          *)
(* "exit now") leaves the shell running.                                   *)
(***************************************************************************)
\* The line is "exit" between whitespace.
TrimmedIsExit(line) ==
  \E i \in 1..Len(line) :
    /\ i + 3 <= Len(line)
    /\ SubSeq(line, i, i + 3) = <<"e", "x", "i", "t">>
    /\ \A k \in 1..Len(line) : (k < i \/ k > i + 3) => line[k] \in {" ", "\n"}

ExitExactly ==
  last.op \in {"exit", "process_command"}
  => /\ pc \in {"running", "terminated"}
     /\ pc = "terminated" <=> TrimmedIsExit(last.arg)

ExitStep ==
  /\ pc # "terminated"
  /\ pc' = "terminated"
     => /\ command_history' = command_history
        /\ current_dir' = current_dir
        /\ stdout' = <<>>
        /\ last'.called = <<>>

C8_ExitTerminates == [] ExitExactly /\ [][ExitStep]_vars

\* Reached: "EXIT" and "exit now" were processed, " exit \n" terminated.
C8_Witness ==
  /\ pc = "terminated"
  /\ last.arg = l_exit_padded
  /\ command_history = <<l_EXIT, l_exit_now>>

(***************************************************************************)
(* C9.  Round trip: for every file entry d1/.../dn/f of the archive with   *)
(* text t, after change_dir(d1), ..., change_dir(dn) from the root,        *)
(* read_file(f) returns exactly the lines of t; and read_file of a         *)
(* relative path whose combined path has no entry in the content table     *)
(* raises FileNotFoundError.                                               *)
(* Violated: after change_dir("d"), change_dir("e") the entry d/e/f is     *)
(* looked up as "de/f" and read_file("f") raises FileNotFoundError.        *)
(***************************************************************************)
EntryNames == {archive.names[i] : i \in 1..Len(archive.names)}
AllButLast(cs) == SubSeq(cs, 1, Len(cs) - 1)

\* The harness walked down d1..dn and then read f, and d1/.../dn/f is a file
\* entry of the archive.
ReadOfEntry ==
  /\ pc = "api"
  /\ calls # <<>>
  /\ last = calls[Len(calls)]
  /\ last.op = "read_file"
  /\ OnlyChangeDir(AllButLast(calls))
  /\ \E entry \in EntryNames :
       /\ Split(entry, "/") = Append(ArgsOf(AllButLast(calls)), last.arg)
       /\ last.arg # <<>>

C9_ReadRoundTrip ==
  /\ ReadOfEntry
     => LET entry == Join(Slash, Append(ArgsOf(AllButLast(calls)), last.arg))
        IN  /\ last.raised = "none"
            /\ last.ret = SplitLines(Decode(archive.data[entry]).text)
  /\ ( /\ last.op = "read_file"
       /\ Join(Slash, Append(Segments(last.before), last.arg))
            \notin DOMAIN files_content )
     => last.raised = "FileNotFoundError"

(***************************************************************************)
(* C10.  After load, for every list of entry paths (in any order, a name   *)
(* used both as a file entry and as a directory prefix included): a path   *)
(* is a key of files_content if and only if the tree holds None (a file)   *)
(* at that position.                                                       *)
(* Violated: the entries d/f, d leave files_content with the key "d/f"     *)
(* and the tree {'d': None}.                                               *)
(***************************************************************************)
C10_ContentTableMatchesTree ==
  Loaded
  => \A path \in DOMAIN files_content \cup {Join(Slash, p) : p \in DOMAIN fs} :
       path \in DOMAIN files_content <=> IsFile(Split(path, "/"))

(***************************************************************************)
(* C11.  load builds the tree from the entry list: for every entry path    *)
(* each proper prefix is a directory node at its position, the terminal    *)
(* segment is a file node unless the entry ends in "/", the tree has no    *)
(* node that no entry names, and load completes without error for every    *)
(* entry list.                                                             *)
(* Violated: the entries d, d/f make load_zip raise TypeError; the entries *)
(* d/f, d leave d a file although it is a proper prefix of d/f.            *)
(***************************************************************************)
\* Every member of the archive is UTF-8 text.
TextArchive == \A n \in DOMAIN archive.data : Decode(archive.data[n]).raised = "none"

TreeIsWhatEntriesName ==
  /\ \A entry \in EntryNames :
       LET parts == Split(entry, "/")
       IN  /\ \A k \in 1..(Len(parts) - 1) : IsDirectory(SubSeq(parts, 1, k))
           /\ parts[Len(parts)] # <<>> => IsFile(parts)
  /\ \A p \in DOMAIN fs : \E entry \in EntryNames : IsPrefix(p, Split(entry, "/"))

C11_LoadBuildsTree ==
  TextArchive
  => /\ last.op = "load_zip" => last.raised = "none"
     /\ Loaded
     /\ TreeIsWhatEntriesName

(***************************************************************************)
(* C12.  In every reachable state, after any sequence of change_dir calls  *)
(* (".." and failing ones included), current_path() is a string that       *)
(* begins with "/".                                                        *)
(***************************************************************************)
BeginsWithSlash(path) == path # <<>> /\ path[1] = "/"

C12_PathBeginsWithSlash ==
  Loaded
  => /\ BeginsWithSlash(current_path(current_dir))
     /\ last.op = "current_path" => BeginsWithSlash(last.ret[1])

\* Reached: down into d, a change_dir that fails, and ".." back to the root.
C12_Witness ==
  /\ Len(calls) = 3
  /\ calls[1].op = "change_dir" /\ calls[1].raised = "none" /\ calls[1].arg = n_d
  /\ calls[2].op = "change_dir" /\ calls[2].raised = "FileNotFoundError"
  /\ calls[3].op = "change_dir" /\ calls[3].arg = DotDot
  /\ current_path(current_dir) = Slash

(***************************************************************************)
(* C13.  Only non-empty input is recorded: every non-empty line other than *)
(* exit is appended verbatim to the history before it is dispatched,       *)
(* whether or not the command succeeds, and an empty or whitespace-only    *)
(* line leaves the history unchanged.                                      *)
(* Violated: the line " " is appended like any other.                      *)
(***************************************************************************)
IsBlank(line) == \A k \in 1..Len(line) : line[k] \in {" ", "\n"}

\* A turn of the loop that passes the line last'.arg to process_command.
ProcessesLine == pc = "running" /\ pc' # "terminated"

RecordsNonEmptyOnly ==
  ProcessesLine
  => IF IsBlank(last'.arg)
     THEN command_history' = command_history
     ELSE command_history' = Append(command_history, last'.arg)

C13_OnlyNonEmptyRecorded == [][RecordsNonEmptyOnly]_vars

(***************************************************************************)
(* C14.  The cd command requires exactly one argument: a cd line with no   *)
(* argument prints the usage message, does not call change_dir, leaves the *)
(* current directory unchanged and adds exactly its own entry to the       *)
(* history; change_dir is called only for a cd line with exactly one       *)
(* argument.                                                               *)
(* Violated: "cd d x" calls change_dir("d").                               *)
(***************************************************************************)
IsCdLine(call) == call.op = "process_command" /\ FirstToken(call.arg) = c_cd

CdArity ==
  IsCdLine(last)
  => /\ Len(SplitWs(last.arg)) = 1
        => /\ stdout = <<MsgUsage>>
           /\ ~InList("change_dir", last.called)
           /\ current_dir = last.before
     /\ InList("change_dir", last.called) => Len(SplitWs(last.arg)) = 2

CdRecordedOnce ==
  (ProcessesLine /\ IsCdLine(last'))
  => command_history' = Append(command_history, last'.arg)

C14_CdTakesOneArgument == [] CdArity /\ [][CdRecordedOnce]_vars

(***************************************************************************)
(* C15.  The current directory is changed by cd alone: ls, pwd, history,   *)
(* date, an unknown command, a blank line, and list_dir, current_path and  *)
(* read_file (failing or not) leave current_dir as it was, and nothing     *)
(* after load changes the tree or the content table.                       *)
(***************************************************************************)
IsChangeDir(call) == call.op = "change_dir" \/ IsCdLine(call)

OnlyCdMoves ==
  /\ current_dir' # current_dir => IsChangeDir(last')
  /\ fs' = fs
  /\ files_content' = files_content

C15_OnlyCdChangesDirectory == [][OnlyCdMoves]_vars

\* Reached: in /d, a listing and a failing read_file later, still /d.
C15_Witness ==
  /\ Len(calls) = 3
  /\ calls[1].op = "change_dir" /\ calls[1].arg = n_d
  /\ calls[2].op = "list_dir"
  /\ calls[3].op = "read_file" /\ calls[3].raised = "FileNotFoundError"
  /\ current_dir = <<"/", "d">>
  /\ fs = load_zip(archive).fs
  /\ files_content = load_zip(archive).files_content

(***************************************************************************)
(* C16.  History is shared process-wide: the commands processed through    *)
(* one shell object are in the history every other shell object of the     *)
(* process sees; a history command on a freshly created shell lists the    *)
(* commands of the earlier shells first and its indices go on from the     *)
(* prior count instead of restarting at 1.                                 *)
(***************************************************************************)
\* The history command lists what the earlier shells recorded, then the
\* lines of this shell, numbered from shell.inherited + 1 on.
ListsEarlierShellsFirst ==
  (last.op = "process_command" /\ FirstToken(last.arg) = c_history)
  => /\ shell.inherited < Len(command_history)
     /\ Len(stdout) = Len(command_history)
     /\ \A i \in 1..shell.inherited :
          LineCarries(stdout[i], i, command_history[i])
     /\ \A i \in (shell.inherited + 1)..Len(stdout) :
          LineCarries(stdout[i], i, command_history[i])

\* Creating a shell leaves the history of the process as it is.
NewShellKeepsHistory ==
  last'.op = "VirtualShell"
  => command_history' = command_history /\ shell'.inherited = Len(command_history')

C16_HistorySharedAcrossShells ==
  [] ListsEarlierShellsFirst /\ [][NewShellKeepsHistory]_vars

\* Reached: ls and pwd on the first shell, history on the second prints
\* them as 1 and 2 and itself as 3.
C16_Witness ==
  /\ shell = [id |-> 2, inherited |-> 2]
  /\ command_history = <<l_ls, l_pwd, l_history>>
  /\ last.op = "process_command"
  /\ last.arg = l_history
  /\ stdout[1] = Print3(<<"1">>, Space, l_ls)
  /\ stdout[3] = Print3(<<"3">>, Space, l_history)

(***************************************************************************)
(* C17.  Each line the history command prints is the 1-based index, one    *)
(* space, a one-character separator (a space), one space, and the recorded *)
(* command verbatim: three spaces between index and command.               *)
(* As first stated, with a two-character separator between the two         *)
(* spaces, the property is violated: C17_TwoCharMarker.                    *)
(***************************************************************************)
IsHistoryLine(call) == call.op = "process_command" /\ FirstToken(call.arg) = c_history

\* <index><space><marker><space><command> with a marker of n characters.
HasMarkerOfLen(line, i, command, n) ==
  /\ Len(line) = Len(Str(i)) + 1 + n + 1 + Len(command)
  /\ IsPrefix(Str(i) \o Space, line)
  /\ IsSuffix(Space \o command, line)

C17_TwoCharMarker ==
  IsHistoryLine(last)
  => \A i \in 1..Len(stdout) : HasMarkerOfLen(stdout[i], i, command_history[i], 2)

C17_HistoryLineFormat ==
  IsHistoryLine(last)
  => /\ Len(stdout) = Len(command_history)
     /\ \A i \in 1..Len(stdout) :
          /\ HasMarkerOfLen(stdout[i], i, command_history[i], 1)
          /\ stdout[i] = Str(i) \o <<" ", " ", " ">> \o command_history[i]

\* Reached: "1   cd d x" and "2   history".
C17_Witness ==
  /\ IsHistoryLine(last)
  /\ stdout = << <<"1", " ", " ", " ">> \o l_cd_d_x, <<"2", " ", " ", " ">> \o l_history >>

(***************************************************************************)
(* C18.  change_dir never moves the current directory onto a file: when    *)
(* change_dir(name), name other than "..", succeeds, name is a             *)
(* subdirectory of the previous current directory and a following          *)
(* list_dir() succeeds; change_dir on the name of a file of the current    *)
(* directory fails and leaves the path unchanged.                          *)
(* Violated: change_dir("a") on the file a succeeds and leaves "/a",       *)
(* where list_dir raises AttributeError.                                   *)
(***************************************************************************)
C18_NeverOntoFile ==
  (last.op = "change_dir" /\ last.arg # DotDot)
  => LET target == Append(Segments(last.before), last.arg)
     IN  /\ last.raised = "none"
            => /\ IsDirectory(target)
               /\ list_dir(fs, current_dir).raised = "none"
         /\ IsFile(target) => last.raised # "none" /\ current_dir = last.before

(***************************************************************************)
(* C19.  cd followed by cd .. is the identity on the path: in every        *)
(* reachable state with current path P, root or not, if change_dir(name)   *)
(* succeeds for a name other than "..", a following change_dir("..")       *)
(* leaves current_path() equal to P.                                       *)
(* Violated: from "/d", change_dir("e") gives "/de" and ".." gives "/".    *)
(***************************************************************************)
C19_DownThenUpIsIdentity ==
  ( /\ pc = "api"
    /\ Len(calls) >= 2
    /\ LET down == calls[Len(calls) - 1]
           up   == calls[Len(calls)]
       IN  /\ down.op = "change_dir" /\ down.arg # DotDot /\ down.raised = "none"
           /\ up.op = "change_dir" /\ up.arg = DotDot )
  => current_path(current_dir) = calls[Len(calls) - 1].before

====
